---- MODULE Spec2Model ----
(***************************************************************************)
(* Model of package http_tg_config (src/http.go): a generic HTTP handler   *)
(* that exposes one live configuration value on /config/ (GET, POST,       *)
(* OPTIONS) and its JSON schema on /config-schema/.                         *)
(*                                                                         *)
(* src/http.go holds three revisions of the package.  Revision 1           *)
(* (lines 1-110) obtains the decode target of a POST from cfg.CreateNew(); *)
(* revisions 2 (lines 112-198) and 3 (lines 200-298) declare it as          *)
(* `var newCfg T`.  The variable `variant` selects the revision.           *)
(*                                                                         *)
(* net/http runs every request in a goroutine of its own and the handler   *)
(* holds no lock, so the steps of concurrent requests interleave.  Every   *)
(* access to the live configuration (one field read by json.Marshal, one   *)
(* field write by Update) is a step of its own; a racing read of a         *)
(* word-sized field yields its value before or after a racing write.       *)
(*                                                                         *)
(* The configuration type T is supplied by the application.  The model     *)
(* instantiates it with a pointer to a struct of two integer fields,       *)
(*     type Range struct { Min int `json:"min"`; Max int `json:"max"` }    *)
(* whose Validate requires min <= max, whose CreateNew returns &Range{},   *)
(* and whose Update copies the candidate field by field and may return an  *)
(* error at any point.  Whether json.Marshal accepts the type is a          *)
(* property of the type (`encodable`): a type that also holds a field of   *)
(* a kind encoding/json rejects makes every json.Marshal(s.cfg) fail.      *)
(* Marshalling the reflected schema cannot fail, so the error branch of    *)
(* serveSchema (lines 60-65) has no transition here.                       *)
(***************************************************************************)
EXTENDS Integers, Sequences, FiniteSets

\* ------------------------------------------------------------- bounds
NumWorkers == 2      \* goroutines serving requests at the same time
MaxVal == 1          \* field values range over 0..MaxVal

\* ---------------------------------------------------------- constants
StatusOK == 200
StatusBadRequest == 400
StatusMethodNotAllowed == 405
StatusInternalServerError == 500

Workers == 1..NumWorkers
Vals == 0..MaxVal

\* The struct's fields in declaration order, the order json.Marshal emits.
FieldOrder == <<"min", "max">>
NumFields == Len(FieldOrder)
FieldNames == {FieldOrder[i] : i \in 1..NumFields}

ConfigValues == [FieldNames -> Vals]
ZeroCfg == [f \in FieldNames |-> 0]

\* Addresses: LiveAddr is the instance given to NewConfigHandler; worker w's
\* fresh instance (the result of CreateNew in its current request) lives at w.
LiveAddr == 0
Addrs == {LiveAddr} \cup Workers
\* The nil pointer: the zero value of the pointer type T.
NilAddr == -1

Variants == {1, 2, 3}
Routes == {"/config/", "/config-schema/"}
Methods == {"GET", "POST", "OPTIONS", "DELETE"}

\* ------------------------------------------------------ JSON documents
\* A JSON value is a number or a string; an object is a sequence of members.
JNum(n) == [t |-> "number", n |-> n]
JStr == [t |-> "string", n |-> 0]
JValues == {JNum(n) : n \in Vals} \cup {JStr}
Members == [key : FieldNames, val : JValues]
Malformed == <<[key |-> "<syntax error>", val |-> JStr]>>

\* Request bodies: text that is not JSON, or an object holding some of the
\* fields, each at most once.
Objects ==
    {<<>>} \cup {<<m>> : m \in Members}
    \cup {ms \in {<<m1, m2>> : m1 \in Members, m2 \in Members} :
            ms[1].key = FieldOrder[1] /\ ms[2].key = FieldOrder[2]}
Bodies == {Malformed} \cup Objects

\* collaborator: func (c *Range) Validate() error
Validate(c) == c["min"] <= c["max"]

\* json.Marshal of the struct: one member per field, in declaration order.
Marshal(c) ==
    [i \in 1..NumFields |-> [key |-> FieldOrder[i], val |-> JNum(c[FieldOrder[i]])]]

\* Reflect filling each property's entry from the value the field holds
\* (as a schema with `default` taken from the instance would).
Reflect_WithValues(c) ==
    [i \in 1..NumFields |->
        [key |-> FieldOrder[i],
         val |-> [t |-> "integer", n |-> c[FieldOrder[i]]]]]

\* jsonschema.Reflect: derived from the type of the value (its fields and
\* their kinds), not from the numbers it holds.
Reflect(c) ==
    [i \in 1..NumFields |->
        [key |-> FieldOrder[i],
         val |-> [t |-> IF c[FieldOrder[i]] \in Int THEN "integer" ELSE "string",
                  n |-> 0]]]

\* json.Decoder.Decode into a non-nil pointer: a syntax error is reported
\* before the target is touched; otherwise every member that fits its field
\* is stored, and a member of the wrong kind is skipped and reported.
RECURSIVE ApplyMembers(_, _)
ApplyMembers(c, ms) ==
    IF ms = <<>> THEN c
    ELSE LET m == Head(ms)
             c1 == IF m.key \in DOMAIN c /\ m.val.t = "number"
                   THEN [c EXCEPT ![m.key] = m.val.n]
                   ELSE c
         IN  ApplyMembers(c1, Tail(ms))

TypeMismatch(ms) ==
    \E i \in 1..Len(ms) : ms[i].key \in FieldNames /\ ms[i].val.t # "number"

DecodeErr(b) == b = Malformed \/ TypeMismatch(b)
DecodeVal(c, b) == IF b = Malformed THEN c ELSE ApplyMembers(c, b)

\* One chunk written to the http.ResponseWriter.
Chunk(t, msg, json) == [t |-> t, msg |-> msg, json |-> json]

VARIABLES
    variant,      \* which revision of the package is running
    cfg,          \* configHandler.cfg: the address of the live configuration
    heap,         \* the configuration instances, by address
    initCfg,      \* history: the value given to NewConfigHandler
    encodable,    \* whether json.Marshal accepts the configuration type
    lastApplied,  \* history: candidate of the last Update that returned nil
    candidates,   \* history: every candidate an Update was invoked with
    updFailed,    \* history: some Update returned an error
    anyPost,      \* history: some POST reached serveConfig
    pc,           \* per goroutine: position in the handler
    route,        \* per request: URL path
    method,       \* per request: r.Method
    newCfg,       \* per request: the local newCfg (an address, or NilAddr)
    idx,          \* per request: next field of a Marshal or of an Update
    buf,          \* per request: bytes json.Marshal has produced so far
    resp,         \* per request: WriteHeader codes and chunks written
    logs,         \* per request: levels of the log entries it made
    calls,        \* per request history: collaborator/decoder calls made
    errAt,        \* per request history: the step that failed
    sentValid,    \* per POST history: its body encodes a candidate that passes Validate
    overlap       \* per GET history: an Update ran while it was marshalling

vars == <<variant, cfg, heap, initCfg, encodable, lastApplied, candidates, updFailed,
          anyPost, pc, route, method, newCfg, idx, buf, resp, logs, calls,
          errAt, sentValid, overlap>>

fixed == <<variant, cfg, initCfg, encodable>>
hist == <<lastApplied, candidates, updFailed>>

EmptyResp == [codes |-> <<>>, out |-> <<>>]

\* The status the client receives: the first WriteHeader, else 200.
Status(w) == IF resp[w].codes = <<>> THEN StatusOK ELSE Head(resp[w].codes)

Call(op, recv, arg) == [op |-> op, recv |-> recv, arg |-> arg]

\* http.Error(w, msg, code)
HttpError(r, msg, code) ==
    [codes |-> Append(r.codes, code), out |-> Append(r.out, Chunk("text", msg, <<>>))]

\* s.logger.Warn / s.logger.Info: revision 2 has no logger, revision 3 logs
\* nothing in serveConfig.
Log(l, level) == IF variant = 1 THEN Append(l, level) ELSE l

\* NewConfigHandler(cfg, parentMux, logger)
Init ==
    /\ variant \in Variants
    /\ cfg = LiveAddr
    /\ initCfg \in {c \in ConfigValues : Validate(c)}
    /\ encodable \in BOOLEAN
    /\ heap = [a \in Addrs |-> IF a = LiveAddr THEN initCfg ELSE ZeroCfg]
    /\ lastApplied = initCfg
    /\ candidates = {}
    /\ updFailed = FALSE
    /\ anyPost = FALSE
    /\ pc = [w \in Workers |-> "idle"]
    /\ route = [w \in Workers |-> "/config/"]
    /\ method = [w \in Workers |-> "GET"]
    /\ newCfg = [w \in Workers |-> NilAddr]
    /\ idx = [w \in Workers |-> 1]
    /\ buf = [w \in Workers |-> <<>>]
    /\ resp = [w \in Workers |-> EmptyResp]
    /\ logs = [w \in Workers |-> <<>>]
    /\ calls = [w \in Workers |-> <<>>]
    /\ errAt = [w \in Workers |-> "none"]
    /\ sentValid = [w \in Workers |-> FALSE]
    /\ overlap = [w \in Workers |-> FALSE]

UpdateInProgress == \E v \in Workers : pc[v] = "update"

\* The handler returns: its locals (newCfg and the instance it points to,
\* the marshalled bytes) are gone, the response is complete.
Return(w, h) ==
    /\ pc' = [pc EXCEPT ![w] = "done"]
    /\ newCfg' = [newCfg EXCEPT ![w] = NilAddr]
    /\ idx' = [idx EXCEPT ![w] = 1]
    /\ buf' = [buf EXCEPT ![w] = <<>>]
    /\ heap' = [h EXCEPT ![w] = ZeroCfg]

\* The mux dispatches a new request to serveConfig or serveSchema in a
\* goroutine of its own; the previous request of that goroutine is over.
Accept(w) ==
    /\ pc[w] \in {"idle", "done"}
    /\ \E r \in Routes, m \in Methods :
        /\ route' = [route EXCEPT ![w] = r]
        /\ method' = [method EXCEPT ![w] = m]
        /\ pc' = [pc EXCEPT ![w] = IF r = "/config/" THEN "serveConfig" ELSE "serveSchema"]
        /\ anyPost' = (anyPost \/ (r = "/config/" /\ m = "POST"))
        /\ overlap' = [overlap EXCEPT ![w] = r = "/config/" /\ m = "GET" /\ UpdateInProgress]
    /\ resp' = [resp EXCEPT ![w] = EmptyResp]
    /\ logs' = [logs EXCEPT ![w] = <<>>]
    /\ calls' = [calls EXCEPT ![w] = <<>>]
    /\ errAt' = [errAt EXCEPT ![w] = "none"]
    /\ sentValid' = [sentValid EXCEPT ![w] = FALSE]
    /\ UNCHANGED <<fixed, hist, heap, newCfg, idx, buf>>

\* ------------------------------------------------ serveConfig: case GET
\* GetReadField emitting the first field's value for every field.
GetReadField_WrongField(w) ==
    /\ pc[w] = "serveConfig" /\ method[w] = "GET"
    /\ encodable
    /\ idx[w] <= NumFields
    /\ buf' = [buf EXCEPT ![w] =
                Append(@, [key |-> FieldOrder[idx[w]],
                           val |-> JNum(heap[cfg][FieldOrder[1]])])]
    /\ idx' = [idx EXCEPT ![w] = @ + 1]
    /\ overlap' = [overlap EXCEPT ![w] = @ \/ UpdateInProgress]
    /\ UNCHANGED <<fixed, hist, heap, anyPost, pc, route, method, newCfg,
                   resp, logs, calls, errAt, sentValid>>

\* json.Marshal(s.cfg) reads the live struct one field after the other.
GetReadField(w) ==
    /\ pc[w] = "serveConfig" /\ method[w] = "GET"
    /\ encodable
    /\ idx[w] <= NumFields
    /\ buf' = [buf EXCEPT ![w] =
                Append(@, [key |-> FieldOrder[idx[w]],
                           val |-> JNum(heap[cfg][FieldOrder[idx[w]]])])]
    /\ idx' = [idx EXCEPT ![w] = @ + 1]
    /\ overlap' = [overlap EXCEPT ![w] = @ \/ UpdateInProgress]
    /\ UNCHANGED <<fixed, hist, heap, anyPost, pc, route, method, newCfg,
                   resp, logs, calls, errAt, sentValid>>

\* json.Marshal(s.cfg) returns an error: the handler answers 500 with the
\* error text and returns; only revision 1 logs it (revision 2 has no logger,
\* revision 3 does not log in this branch).
GetMarshalFail(w) ==
    /\ pc[w] = "serveConfig" /\ method[w] = "GET"
    /\ ~encodable
    /\ errAt' = [errAt EXCEPT ![w] = "marshal"]
    /\ resp' = [resp EXCEPT ![w] =
                 HttpError(@, "failed to marshal config", StatusInternalServerError)]
    /\ logs' = [logs EXCEPT ![w] = Log(@, "WARN")]
    /\ Return(w, heap)
    /\ UNCHANGED <<fixed, hist, anyPost, route, method, calls, sentValid,
                   overlap>>

\* w.WriteHeader(http.StatusOK); w.Write(bytes); revision 1 logs at Info.
GetRespond(w) ==
    /\ pc[w] = "serveConfig" /\ method[w] = "GET"
    /\ idx[w] = NumFields + 1
    /\ resp' = [resp EXCEPT ![w] =
                 [codes |-> Append(@.codes, StatusOK),
                  out |-> Append(@.out, Chunk("json", "", buf[w]))]]
    /\ logs' = [logs EXCEPT ![w] = Log(@, "INFO")]
    /\ Return(w, heap)
    /\ UNCHANGED <<fixed, hist, anyPost, route, method, calls, errAt,
                   sentValid, overlap>>

\* ----------------------------------------------- serveConfig: case POST
\* PostCreateNew decoding straight into the live value: newCfg := s.cfg.
PostCreateNew_Alias(w) ==
    /\ pc[w] = "serveConfig" /\ method[w] = "POST"
    /\ variant = 1
    /\ newCfg' = [newCfg EXCEPT ![w] = cfg]
    /\ calls' = [calls EXCEPT ![w] = Append(@, Call("CreateNew", cfg, NilAddr))]
    /\ pc' = [pc EXCEPT ![w] = "decode"]
    /\ UNCHANGED <<fixed, hist, heap, anyPost, route, method, idx, buf, resp,
                   logs, errAt, sentValid, overlap>>

\* Revision 1: newCfg := s.cfg.CreateNew(), a fresh zero instance.
PostCreateNew(w) ==
    /\ pc[w] = "serveConfig" /\ method[w] = "POST"
    /\ variant = 1
    /\ newCfg' = [newCfg EXCEPT ![w] = w]
    /\ heap' = [heap EXCEPT ![w] = ZeroCfg]
    /\ calls' = [calls EXCEPT ![w] = Append(@, Call("CreateNew", cfg, NilAddr))]
    /\ pc' = [pc EXCEPT ![w] = "decode"]
    /\ UNCHANGED <<fixed, hist, anyPost, route, method, idx, buf, resp, logs,
                   errAt, sentValid, overlap>>

\* PostZeroValue allocating the target: newCfg := new(...), a fresh zero
\* instance the decoder can fill.
PostZeroValue_Allocated(w) ==
    /\ pc[w] = "serveConfig" /\ method[w] = "POST"
    /\ variant \in {2, 3}
    /\ newCfg' = [newCfg EXCEPT ![w] = w]
    /\ heap' = [heap EXCEPT ![w] = ZeroCfg]
    /\ pc' = [pc EXCEPT ![w] = "decode"]
    /\ UNCHANGED <<fixed, hist, anyPost, route, method, idx, buf, resp,
                   logs, calls, errAt, sentValid, overlap>>

\* Revisions 2 and 3: var newCfg T, the nil pointer.
PostZeroValue(w) ==
    /\ pc[w] = "serveConfig" /\ method[w] = "POST"
    /\ variant \in {2, 3}
    /\ newCfg' = [newCfg EXCEPT ![w] = NilAddr]
    /\ pc' = [pc EXCEPT ![w] = "decode"]
    /\ UNCHANGED <<fixed, hist, heap, anyPost, route, method, idx, buf, resp,
                   logs, calls, errAt, sentValid, overlap>>

\* decoder.Decode(newCfg) of the request body b.  Into a nil pointer it
\* fails for every body (json.InvalidUnmarshalError, or the syntax error met
\* first).  A failure answers 400 (revision 1 logs it) and returns.
PostDecode(w) ==
    /\ pc[w] = "decode"
    /\ \E b \in Bodies :
        LET target == newCfg[w]
            failed == target = NilAddr \/ DecodeErr(b)
            decoded == IF target = NilAddr THEN heap
                       ELSE [heap EXCEPT ![target] = DecodeVal(@, b)]
        IN  /\ sentValid' = [sentValid EXCEPT ![w] =
                              ~DecodeErr(b) /\ Validate(DecodeVal(ZeroCfg, b))]
            /\ calls' = [calls EXCEPT ![w] = Append(@, Call("Decode", NilAddr, target))]
            /\ IF failed
               THEN /\ errAt' = [errAt EXCEPT ![w] = "decode"]
                    /\ resp' = [resp EXCEPT ![w] =
                                 HttpError(@, "failed to decode request body", StatusBadRequest)]
                    /\ logs' = [logs EXCEPT ![w] = Log(@, "WARN")]
                    /\ Return(w, decoded)
               ELSE /\ pc' = [pc EXCEPT ![w] = "validate"]
                    /\ heap' = decoded
                    /\ UNCHANGED <<errAt, resp, logs, newCfg, idx, buf>>
    /\ UNCHANGED <<fixed, hist, anyPost, route, method, overlap>>

\* PostValidate with the `return` after the 400 left out: the handler goes
\* on to the commit step.
PostValidate_NoReturn(w) ==
    /\ pc[w] = "validate"
    /\ calls' = [calls EXCEPT ![w] = Append(@, Call("Validate", newCfg[w], NilAddr))]
    /\ IF ~Validate(heap[newCfg[w]])
       THEN /\ errAt' = [errAt EXCEPT ![w] = "validate"]
            /\ resp' = [resp EXCEPT ![w] =
                         HttpError(@, "failed to validate request body", StatusBadRequest)]
            /\ logs' = [logs EXCEPT ![w] = Log(@, "WARN")]
       ELSE UNCHANGED <<errAt, resp, logs>>
    /\ pc' = [pc EXCEPT ![w] = "commit"]
    /\ UNCHANGED <<fixed, hist, heap, newCfg, idx, buf, anyPost, route, method,
                   sentValid, overlap>>

\* newCfg.Validate(); a failure answers 400 (revision 1 logs it) and returns.
PostValidate(w) ==
    /\ pc[w] = "validate"
    /\ calls' = [calls EXCEPT ![w] = Append(@, Call("Validate", newCfg[w], NilAddr))]
    /\ IF ~Validate(heap[newCfg[w]])
       THEN /\ errAt' = [errAt EXCEPT ![w] = "validate"]
            /\ resp' = [resp EXCEPT ![w] =
                         HttpError(@, "failed to validate request body", StatusBadRequest)]
            /\ logs' = [logs EXCEPT ![w] = Log(@, "WARN")]
            /\ Return(w, heap)
       ELSE /\ pc' = [pc EXCEPT ![w] = "commit"]
            /\ UNCHANGED <<errAt, resp, logs, heap, newCfg, idx, buf>>
    /\ UNCHANGED <<fixed, hist, anyPost, route, method, sentValid, overlap>>

\* s.cfg.Update(newCfg) is entered.  Every GET that is marshalling the live
\* value now overlaps an Update.
PostUpdateCall(w) ==
    /\ pc[w] = "commit"
    /\ calls' = [calls EXCEPT ![w] = Append(@, Call("Update", cfg, newCfg[w]))]
    /\ candidates' = candidates \cup {heap[newCfg[w]]}
    /\ idx' = [idx EXCEPT ![w] = 1]
    /\ pc' = [pc EXCEPT ![w] = "update"]
    /\ overlap' = [v \in Workers |->
                    overlap[v] \/ (pc[v] = "serveConfig" /\ method[v] = "GET")]
    /\ UNCHANGED <<fixed, heap, lastApplied, updFailed, anyPost, route, method,
                   newCfg, buf, resp, logs, errAt, sentValid>>

\* collaborator Update: copies the next field of the candidate into the
\* receiver, the live instance.
UpdateWriteField(w) ==
    /\ pc[w] = "update"
    /\ idx[w] <= NumFields
    /\ heap' = [heap EXCEPT ![cfg][FieldOrder[idx[w]]] =
                  heap[newCfg[w]][FieldOrder[idx[w]]]]
    /\ idx' = [idx EXCEPT ![w] = @ + 1]
    /\ UNCHANGED <<fixed, hist, anyPost, pc, route, method, newCfg, buf, resp,
                   logs, calls, errAt, sentValid, overlap>>

\* UpdateFail with the `return` after the 500 left out: the handler goes on
\* to w.WriteHeader(http.StatusOK).
UpdateFail_NoReturn(w) ==
    /\ pc[w] = "update"
    /\ updFailed' = TRUE
    /\ errAt' = [errAt EXCEPT ![w] = "update"]
    /\ resp' = [resp EXCEPT ![w] =
                 [codes |-> Append(Append(@.codes, StatusInternalServerError), StatusOK),
                  out |-> Append(@.out, Chunk("text", "failed to update config", <<>>))]]
    /\ logs' = [logs EXCEPT ![w] = Log(Log(@, "WARN"), "INFO")]
    /\ Return(w, heap)
    /\ UNCHANGED <<fixed, lastApplied, candidates, anyPost, route, method,
                   calls, sentValid, overlap>>

\* UpdateFail with a rollback: the handler puts the last applied value back
\* before it answers 500.
UpdateFail_Rollback(w) ==
    /\ pc[w] = "update"
    /\ updFailed' = TRUE
    /\ errAt' = [errAt EXCEPT ![w] = "update"]
    /\ resp' = [resp EXCEPT ![w] =
                 HttpError(@, "failed to update config", StatusInternalServerError)]
    /\ logs' = [logs EXCEPT ![w] = Log(@, "WARN")]
    /\ Return(w, [heap EXCEPT ![cfg] = lastApplied])
    /\ UNCHANGED <<fixed, lastApplied, candidates, anyPost, route, method,
                   calls, sentValid, overlap>>

\* collaborator Update returns an error, before, between or after its
\* writes; the handler answers 500 (revision 1 logs it) and returns.
UpdateFail(w) ==
    /\ pc[w] = "update"
    /\ updFailed' = TRUE
    /\ errAt' = [errAt EXCEPT ![w] = "update"]
    /\ resp' = [resp EXCEPT ![w] =
                 HttpError(@, "failed to update config", StatusInternalServerError)]
    /\ logs' = [logs EXCEPT ![w] = Log(@, "WARN")]
    /\ Return(w, heap)
    /\ UNCHANGED <<fixed, lastApplied, candidates, anyPost, route, method,
                   calls, sentValid, overlap>>

\* UpdateReturn installing the candidate as the live configuration:
\* s.cfg = newCfg.
UpdateReturn_Rebind(w) ==
    /\ pc[w] = "update"
    /\ idx[w] = NumFields + 1
    /\ lastApplied' = heap[newCfg[w]]
    /\ cfg' = newCfg[w]
    /\ resp' = [resp EXCEPT ![w] = [@ EXCEPT !.codes = Append(@, StatusOK)]]
    /\ logs' = [logs EXCEPT ![w] = Log(@, "INFO")]
    /\ pc' = [pc EXCEPT ![w] = "done"]
    /\ newCfg' = [newCfg EXCEPT ![w] = NilAddr]
    /\ idx' = [idx EXCEPT ![w] = 1]
    /\ UNCHANGED <<variant, initCfg, encodable, heap, buf, candidates, updFailed, anyPost,
                   route, method, calls, errAt, sentValid, overlap>>

\* collaborator Update returns nil after its last write; the handler
\* answers w.WriteHeader(http.StatusOK) with no body (revision 1 logs).
UpdateReturn(w) ==
    /\ pc[w] = "update"
    /\ idx[w] = NumFields + 1
    /\ lastApplied' = heap[newCfg[w]]
    /\ resp' = [resp EXCEPT ![w] = [@ EXCEPT !.codes = Append(@, StatusOK)]]
    /\ logs' = [logs EXCEPT ![w] = Log(@, "INFO")]
    /\ Return(w, heap)
    /\ UNCHANGED <<fixed, candidates, updFailed, anyPost, route, method,
                   calls, errAt, sentValid, overlap>>

\* -------------------------------------------- serveConfig: case OPTIONS
\* return: nothing is written, net/http answers 200 with an empty body.
ConfigOptions(w) ==
    /\ pc[w] = "serveConfig" /\ method[w] = "OPTIONS"
    /\ Return(w, heap)
    /\ UNCHANGED <<fixed, hist, anyPost, route, method, resp, logs, calls,
                   errAt, sentValid, overlap>>

\* ------------------------------------------------- serveConfig: default
\* ConfigOtherMethod with the WriteHeader left out: net/http answers 200.
ConfigOtherMethod_NoStatus(w) ==
    /\ pc[w] = "serveConfig" /\ method[w] \notin {"GET", "POST", "OPTIONS"}
    /\ Return(w, heap)
    /\ UNCHANGED <<fixed, hist, anyPost, route, method, resp, logs, calls,
                   errAt, sentValid, overlap>>

\* w.WriteHeader(http.StatusMethodNotAllowed)
ConfigOtherMethod(w) ==
    /\ pc[w] = "serveConfig" /\ method[w] \notin {"GET", "POST", "OPTIONS"}
    /\ resp' = [resp EXCEPT ![w] = [@ EXCEPT !.codes = Append(@, StatusMethodNotAllowed)]]
    /\ Return(w, heap)
    /\ UNCHANGED <<fixed, hist, anyPost, route, method, logs, calls, errAt,
                   sentValid, overlap>>

\* ---------------------------------------------------------- serveSchema
\* Whatever the method: reflect the schema of s.cfg and write it.
ServeSchema(w) ==
    /\ pc[w] = "serveSchema"
    /\ resp' = [resp EXCEPT ![w] =
                 [@ EXCEPT !.out = Append(@, Chunk("schema", "", Reflect(heap[cfg])))]]
    /\ Return(w, heap)
    /\ UNCHANGED <<fixed, hist, anyPost, route, method, logs, calls, errAt,
                   sentValid, overlap>>

Next ==
    \E w \in Workers :
        \/ Accept(w)
        \/ GetReadField(w)
        \/ GetMarshalFail(w)
        \/ GetRespond(w)
        \/ PostCreateNew(w)
        \/ PostZeroValue(w)
        \/ PostDecode(w)
        \/ PostValidate(w)
        \/ PostUpdateCall(w)
        \/ UpdateWriteField(w)
        \/ UpdateFail(w)
        \/ UpdateReturn(w)
        \/ ConfigOptions(w)
        \/ ConfigOtherMethod(w)
        \/ ServeSchema(w)

Spec == Init /\ [][Next]_vars

\* =============================================================== properties
IsPost(w) == route[w] = "/config/" /\ method[w] = "POST"
IsGet(w) == route[w] = "/config/" /\ method[w] = "GET"
Done(w) == pc[w] = "done"
Quiescent == \A w \in Workers : pc[w] \in {"idle", "done"}
HasCall(w, op) == \E i \in 1..Len(calls[w]) : calls[w][i].op = op

\* w takes a step of a POST that comes before the commit step: it obtains
\* the fresh instance, decodes into it or validates it.
PreCommitStep(w, positions) ==
    /\ pc[w] \in positions
    /\ pc[w] = "serveConfig" => method[w] = "POST"
    /\ pc'[w] # pc[w]

\* C1: validate before commit.  Whenever a request has invoked Update, the
\* call is made on the live configuration with a candidate that is a fresh
\* instance (neither nil nor the live one), and the two calls right before
\* it are the Decode into that very instance and the Validate of that very
\* instance, neither of which reported an error; while the commit is pending
\* or running the candidate passes Validate.
C1_ValidateBeforeCommit ==
    \A w \in Workers :
        /\ \A k \in 1..Len(calls[w]) :
              calls[w][k].op = "Update" =>
                  LET a == calls[w][k].arg
                  IN  /\ k >= 3
                      /\ a \notin {NilAddr, cfg}
                      /\ calls[w][k].recv = cfg
                      /\ calls[w][k - 2] = Call("Decode", NilAddr, a)
                      /\ calls[w][k - 1] = Call("Validate", a, NilAddr)
                      /\ errAt[w] \notin {"decode", "validate"}
        /\ pc[w] \in {"commit", "update"} =>
              /\ newCfg[w] \notin {NilAddr, cfg}
              /\ Validate(heap[newCfg[w]])

\* C1 witness: an Update is running on the live configuration and has
\* written a field.
C1_Witness == \E w \in Workers : pc[w] = "update" /\ idx[w] > 1

\* C2: a POST whose body fails to decode is answered 400 with neither
\* Validate nor Update invoked, and no step such a POST takes (obtaining the
\* fresh instance, decoding) changes what a GET of the live configuration
\* returns.
C2_DecodeFailure ==
    /\ [](\A w \in Workers :
            errAt[w] = "decode" =>
                /\ Done(w)
                /\ resp[w].codes = <<StatusBadRequest>>
                /\ ~HasCall(w, "Validate")
                /\ ~HasCall(w, "Update"))
    /\ [][\A w \in Workers :
            PreCommitStep(w, {"serveConfig", "decode"}) =>
                Marshal(heap'[cfg]) = Marshal(heap[cfg])]_vars

\* C2 witness: revision 1 has rejected a POST at the decode step.
C2_Witness ==
    \E w \in Workers : variant = 1 /\ Done(w) /\ IsPost(w) /\ errAt[w] = "decode"

\* C3: a POST whose body decodes but whose candidate fails Validate is
\* answered 400 without Update being invoked, and no step it takes up to and
\* including the validation changes what a GET of the live configuration
\* returns.
C3_ValidationFailure ==
    /\ [](\A w \in Workers :
            errAt[w] = "validate" =>
                /\ Done(w)
                /\ resp[w].codes = <<StatusBadRequest>>
                /\ HasCall(w, "Decode")
                /\ ~HasCall(w, "Update"))
    /\ [][\A w \in Workers :
            PreCommitStep(w, {"serveConfig", "decode", "validate"}) =>
                Marshal(heap'[cfg]) = Marshal(heap[cfg])]_vars

\* C3 witness: a POST has been rejected at the validation step.
C3_Witness ==
    \E w \in Workers : Done(w) /\ IsPost(w) /\ errAt[w] = "validate"

\* A GET of the configuration route has been answered with the marshalled
\* configuration, and the value it returned.
GetResult(w) == resp[w].out[1].json
GetDone(w) == IsGet(w) /\ Done(w) /\ errAt[w] = "none"

\* C4: between requests the live configuration is the initial value or the
\* candidate of the most recent POST that was validated and applied
\* successfully.
C4_LiveIsInitialOrLastApplied ==
    Quiescent => heap[cfg] \in {initCfg, lastApplied}

\* C5: with no Update ever failing and every Update carrying the same
\* candidate, a GET returns the complete value before the update (the
\* initial one) or the complete value after it (the candidate).
C5_GetNeverSeesHalfWritten ==
    \A w \in Workers :
        GetDone(w) /\ ~updFailed /\ Cardinality(candidates) <= 1 =>
            GetResult(w) \in {Marshal(c) : c \in {initCfg} \cup candidates}

\* C6: with no Update ever failing, a GET that overlaps no Update returns
\* the initial value or one of the POSTed candidates in full.
C6_NoMixOfTwoPayloads ==
    \A w \in Workers :
        GetDone(w) /\ ~updFailed /\ ~overlap[w] =>
            GetResult(w) \in {Marshal(c) : c \in {initCfg} \cup candidates}

\* C7: a POST whose body encodes a candidate that passes Validate, and whose
\* Update (if it runs) does not fail, is answered 200.
C7_ValidPostIsApplied ==
    \A w \in Workers :
        IsPost(w) /\ Done(w) /\ sentValid[w] /\ errAt[w] # "update" =>
            Status(w) = StatusOK

\* The status the first failing step of a POST calls for.
ExpectedStatus(e) ==
    CASE e = "decode" -> StatusBadRequest
      [] e = "validate" -> StatusBadRequest
      [] e = "update" -> StatusInternalServerError
      [] OTHER -> StatusOK

\* C8: a finished POST has produced exactly one status, the one its first
\* failing step calls for: 400 for decode or Validate, 500 for Update, and
\* 200 with an empty body exactly when Decode, Validate and Update were all
\* invoked and none failed.
C8_PostStatus ==
    \A w \in Workers :
        IsPost(w) /\ Done(w) =>
            /\ resp[w].codes = <<ExpectedStatus(errAt[w])>>
            /\ errAt[w] = "none" =>
                  /\ resp[w].out = <<>>
                  /\ HasCall(w, "Decode") /\ HasCall(w, "Validate") /\ HasCall(w, "Update")
            /\ errAt[w] # "none" => Len(resp[w].out) = 1 /\ resp[w].out[1].t = "text"
            /\ errAt[w] = "decode" <=> ~HasCall(w, "Validate")
            /\ errAt[w] \in {"decode", "validate"} <=> ~HasCall(w, "Update")

\* C8 witness: a POST answered 500 after its Update failed, next to a POST
\* answered 200 after all three steps succeeded.
C8_Witness ==
    \E w, v \in Workers :
        /\ IsPost(w) /\ Done(w) /\ errAt[w] = "update"
        /\ IsPost(v) /\ Done(v) /\ errAt[v] = "none"

\* C9: at most one Update runs on the live configuration at a time, and while
\* one runs no other POST is creating, decoding or validating its candidate.
C9_UpdatesSerialize ==
    \A w, v \in Workers :
        w # v /\ pc[w] = "update" =>
            /\ pc[v] # "update"
            /\ pc[v] \notin {"decode", "validate", "commit"}
            /\ ~(pc[v] = "serveConfig" /\ method[v] = "POST")

\* C10: a GET that finishes before any POST has been received is answered
\* 200 with the JSON encoding of the initial configuration value (for a
\* configuration type that has a JSON encoding).
C10_GetInitial ==
    \A w \in Workers :
        IsGet(w) /\ Done(w) /\ ~anyPost /\ encodable =>
            /\ resp[w].codes = <<StatusOK>>
            /\ resp[w].out = <<Chunk("json", "", Marshal(initCfg))>>

\* C10 witness: a GET has been answered and no POST was received so far.
C10_Witness == \E w \in Workers : GetDone(w) /\ ~anyPost /\ initCfg # ZeroCfg

\* C11: a request on the configuration route with a method other than GET,
\* POST or OPTIONS is answered 405 with no body, makes none of the calls
\* CreateNew, Decode, Validate and Update, and the step that serves it leaves
\* every configuration instance, the live one included, as it was.
C11_OtherMethodOnConfig ==
    /\ [](\A w \in Workers :
            Done(w) /\ route[w] = "/config/" /\ method[w] \notin {"GET", "POST", "OPTIONS"} =>
                /\ resp[w] = [codes |-> <<StatusMethodNotAllowed>>, out |-> <<>>]
                /\ calls[w] = <<>>
                /\ errAt[w] = "none")
    /\ [][\A w \in Workers :
            /\ pc[w] = "serveConfig"
            /\ method[w] \notin {"GET", "POST", "OPTIONS"}
            /\ pc'[w] # pc[w]
            => heap'[cfg] = heap[cfg] /\ cfg' = cfg]_vars

\* C11 witness: a DELETE on the configuration route has been answered after
\* the live configuration had been changed by an earlier POST.
C11_Witness ==
    \E w \in Workers :
        /\ Done(w) /\ route[w] = "/config/" /\ method[w] = "DELETE"
        /\ heap[cfg] # initCfg

\* C12: on either route a request with an unsupported method (anything but
\* GET and OPTIONS on the schema route; anything but GET, POST and OPTIONS on
\* the configuration route) is answered 405 with no body.
C12_MethodNotAllowedOnBothRoutes ==
    \A w \in Workers :
        /\ Done(w)
        /\ \/ route[w] = "/config-schema/" /\ method[w] \notin {"GET", "OPTIONS"}
           \/ route[w] = "/config/" /\ method[w] \notin {"GET", "POST", "OPTIONS"}
        => /\ Status(w) = StatusMethodNotAllowed
           /\ resp[w].out = <<>>

\* The schema of the configuration type: one integer property per field.
TypeSchema ==
    [i \in 1..NumFields |-> [key |-> FieldOrder[i], val |-> [t |-> "integer", n |-> 0]]]

SchemaDone(w) == Done(w) /\ route[w] = "/config-schema/"

\* C14: whatever the live configuration holds at the time, a request on the
\* schema route returns one and the same document, the schema of the type.
C14_SchemaIndependentOfValue ==
    \A w \in Workers :
        SchemaDone(w) => resp[w].out = <<Chunk("schema", "", TypeSchema)>>

\* C14 witness: a schema request has been answered and the live configuration
\* holds an applied value other than the initial one.
C14_Witness ==
    \E w \in Workers :
        /\ SchemaDone(w) /\ method[w] = "GET"
        /\ heap[cfg] # initCfg
        /\ lastApplied # initCfg

\* w's step is a field write of the Update its POST invoked on the live
\* configuration.
CommitWrite(w) ==
    /\ pc[w] = "update" /\ pc'[w] = "update"
    /\ idx'[w] = idx[w] + 1
    /\ calls[w][Len(calls[w])] = Call("Update", cfg, newCfg[w])

\* C15: the live configuration changes only in a step of the commit (an
\* Update invoked by a POST writing a field); GET, OPTIONS, unsupported
\* methods, the schema route and the create, decode and validate steps of a
\* POST, as well as the handler's answer after the Update, leave it unchanged.
C15_OnlyCommitChangesLive ==
    [][heap'[cfg] # heap[cfg] => \E w \in Workers : CommitWrite(w)]_vars

\* C15 witness: an Update has changed one field of the live configuration and
\* not yet the other.
C15_Witness ==
    \E w \in Workers :
        /\ pc[w] = "update" /\ idx[w] = 2
        /\ heap[cfg][FieldOrder[1]] = heap[newCfg[w]][FieldOrder[1]]
        /\ heap[cfg] \notin {initCfg, heap[newCfg[w]]}

\* w's step is the handler's answer to an Update that returned an error.
UpdateErrorStep(w) ==
    pc[w] = "update" /\ pc'[w] = "done" /\ errAt'[w] = "update"

\* C16: when Update returns an error the POST is answered 500 with the error
\* text and the handler rolls nothing back: the live configuration after the
\* answer is exactly what the Update left.
C16_FailedUpdateNoRollback ==
    /\ [](\A w \in Workers :
            errAt[w] = "update" =>
                /\ Done(w) /\ IsPost(w)
                /\ resp[w].codes = <<StatusInternalServerError>>
                /\ resp[w].out = <<Chunk("text", "failed to update config", <<>>)>>)
    /\ [][\A w \in Workers : UpdateErrorStep(w) => heap'[cfg] = heap[cfg]]_vars

\* C16 witness: an Update wrote one field and failed, its POST was answered
\* 500, and a later GET that overlapped no Update returned the half-written
\* value, which is neither the initial value nor any candidate.
C16_Witness ==
    \E w, v \in Workers :
        /\ Done(w) /\ errAt[w] = "update"
        /\ GetDone(v) /\ ~overlap[v]
        /\ GetResult(v) = Marshal(heap[cfg])
        /\ heap[cfg] \notin {initCfg} \cup candidates

\* C18: in revisions 2 and 3, whose decode target is the zero value of T,
\* every finished POST was rejected at the decode step with 400, no request
\* ever invokes Validate or Update, and the live configuration equals the
\* initial value.
C18_ZeroValueTargetAlwaysFails ==
    variant \in {2, 3} =>
        /\ heap[cfg] = initCfg
        /\ lastApplied = initCfg /\ candidates = {}
        /\ \A w \in Workers :
              /\ ~HasCall(w, "Validate") /\ ~HasCall(w, "Update")
              /\ pc[w] \notin {"validate", "commit", "update"}
              /\ IsPost(w) /\ Done(w) =>
                    /\ errAt[w] = "decode"
                    /\ resp[w].codes = <<StatusBadRequest>>

\* C18 witness: revision 2 or 3 has answered 400 to a POST whose body is
\* well-formed and encodes a candidate that passes Validate.
C18_Witness ==
    \E w \in Workers :
        /\ variant \in {2, 3}
        /\ IsPost(w) /\ Done(w) /\ sentValid[w]
        /\ Status(w) = StatusBadRequest

\* C19: the handler's cfg field holds the instance given to NewConfigHandler
\* in every state and no step assigns it; every Update is called on that
\* instance with another instance as its argument; and the value of that
\* instance changes only while a request is inside such an Update.
C19_LiveInstanceNeverRebound ==
    /\ [](/\ cfg = LiveAddr
          /\ \A w \in Workers :
                /\ newCfg[w] # cfg
                /\ \A k \in 1..Len(calls[w]) :
                      calls[w][k].op = "Update" =>
                          calls[w][k].recv = LiveAddr /\ calls[w][k].arg # LiveAddr)
    /\ [][/\ cfg' = cfg
          /\ heap'[LiveAddr] # heap[LiveAddr] =>
                \E w \in Workers :
                    /\ pc[w] = "update"
                    /\ calls[w][Len(calls[w])].op = "Update"
                    /\ calls[w][Len(calls[w])].recv = LiveAddr]_vars

\* C19 witness: a POST has been applied and answered 200; the live value is
\* its candidate, no longer the initial value, in the original instance.
C19_Witness ==
    \E w \in Workers :
        /\ IsPost(w) /\ Done(w) /\ errAt[w] = "none"
        /\ Quiescent
        /\ heap[LiveAddr] = lastApplied /\ lastApplied # initCfg

\* C17: every server-side fault (json.Marshal of the live configuration
\* failing on GET, Update returning an error on POST) is answered 500 with
\* the error text and logged at warning level, and no 500 is answered
\* without a warning entry in the log.
C17_FaultsAnswered500AndLogged ==
    \A w \in Workers :
        Done(w) =>
            /\ errAt[w] \in {"marshal", "update"} =>
                  /\ resp[w].codes = <<StatusInternalServerError>>
                  /\ Len(resp[w].out) = 1 /\ resp[w].out[1].t = "text"
                  /\ logs[w] = <<"WARN">>
            /\ Status(w) = StatusInternalServerError =>
                  \E i \in 1..Len(logs[w]) : logs[w][i] = "WARN"

\* C13: every finished request carries exactly one response, and after any
\* history of failed requests the endpoint still serves: a GET (of a
\* configuration type that has a JSON encoding) is answered 200, and a POST
\* whose body encodes a candidate that passes Validate is run through
\* Decode, Validate and Update and, unless that Update itself fails, is
\* answered 200.
C13_NoStickyFailure ==
    \A w \in Workers :
        Done(w) =>
            /\ Len(resp[w].codes) <= 1
            /\ IsGet(w) /\ encodable => Status(w) = StatusOK
            /\ IsPost(w) /\ sentValid[w] =>
                  /\ HasCall(w, "Decode") /\ HasCall(w, "Validate") /\ HasCall(w, "Update")
                  /\ errAt[w] \in {"none", "update"}
                  /\ errAt[w] = "none" => Status(w) = StatusOK

====
